---- MODULE Spec2Model ----
(***************************************************************************)
(* Model of api/extractor.py: the serverless handler that pages through    *)
(* the Domus listing API with a bounded exponential-backoff retry and      *)
(* upserts every page into the table inmuebles_domus, one transaction per  *)
(* page.                                                                   *)
(*                                                                         *)
(* Python values are modelled as follows: a dict is a function whose       *)
(* DOMAIN is its key set, a list is a sequence, None is the string "None", *)
(* an unset environment variable is the empty string (both are falsy).     *)
(* The table is a set of rows, so that a duplicated key is representable.  *)
(***************************************************************************)
EXTENDS Integers, Sequences, FiniteSets, TLC

VARIABLES
    DOMUS_TOKEN,        \* module global, read from the environment
    SUPABASE_URL,       \* module global, read from the environment
    source,             \* the remote API: the sizes of its pages
    db,                 \* committed rows of table inmuebles_domus
    txn,                \* rows as seen by the open transaction
    pc,                 \* position of the handler
    page,
    total_inmuebles_actualizados,
    inmuebles_en_pagina,
    retries,
    success,
    data,
    inmuebles,
    conn,               \* "unbound", "open" or "closed"
    response,           \* the dict returned by handler
    raised,             \* exception that left handler, or "None"
    run,                \* number of invocations so far
    db0,                \* history: the table before the first invocation
    db_start,           \* history: the table when this invocation started
    attempts,           \* history: requests.get calls for the current page
    sleeps,             \* history: time.sleep arguments for the current page
    fetched,            \* history: pages whose fetch succeeded in this run
    committed,          \* history: pages committed in this run
    failed,             \* history: some fetch or write failed in this run
    fetch_error,        \* history: exception of the last attempt, or "None"
    worst_case          \* history: every page fetched in this run was
                        \* answered on its last permitted attempt

vars == << DOMUS_TOKEN, SUPABASE_URL, source, db, txn, pc, page,
           total_inmuebles_actualizados, inmuebles_en_pagina, retries,
           success, data, inmuebles, conn, response, raised, run, db0,
           db_start, attempts, sleeps, fetched, committed, failed,
           fetch_error, worst_case >>

(***************************************************************************)
(* Program constants                                                       *)
(***************************************************************************)
LIMIT_PER_PAGE == 50
MAX_RETRIES == 5
RETRY_DELAY == 5

(***************************************************************************)
(* Bounds of the model                                                     *)
(***************************************************************************)
MaxFullPages == 2
MaxRuns == 2

None == "None"

(***************************************************************************)
(* The remote source.  A source is a list of page sizes; the records of a  *)
(* page are generated from its number; a page beyond the list is empty.   *)
(***************************************************************************)
ShortSizes == {0, 37}

FullPages(n) == [i \in 1..n |-> LIMIT_PER_PAGE]

\* Some full pages and a page that is not full; behind a page that is
\* neither full nor empty the source may hold one more full page.
\* A source that ignores the limit answers with one record more than asked.
SizeLists ==
    { FullPages(f) \o << last >> : f \in 0..MaxFullPages, last \in ShortSizes }
    \cup { FullPages(f) \o << 37, LIMIT_PER_PAGE >> : f \in 0..MaxFullPages }
    \cup { << LIMIT_PER_PAGE + 1, 37 >> }

Sources == [sizes : SizeLists]

Fechas == << "2024-01-01", "2024-02-01", "2024-03-01", "2024-04-01",
             "2024-05-01", "2024-06-01" >>

\* The first ten records of every page carry the codes 1..5, each code twice
\* in a row; every later record has a code of its own.
CodproOf(p, i) ==
    IF i <= 10 THEN (i + 1) \div 2 ELSE (p - 1) * LIMIT_PER_PAGE + i

\* One listing as the API returns it: a dict with the key codpro, and with
\* the keys estado and fecha_actualizacion only on some records.
Inmueble(p, i) ==
    ("codpro" :> CodproOf(p, i))
    @@ (IF i % 3 # 0 THEN "estado" :> "Disponible" ELSE <<>>)
    @@ (IF i % 2 = 1 THEN "fecha_actualizacion" :> Fechas[((p - 1) % Len(Fechas)) + 1]
                     ELSE <<>>)
    @@ ("precio" :> 1000 * p + i)

PageSize(src, p) == IF p \in 1..Len(src.sizes) THEN src.sizes[p] ELSE 0

PageRecords(src, p) == [i \in 1..PageSize(src, p) |-> Inmueble(p, i)]

\* Body of a 2xx response for page p.
ResponseJson(src, p) == [type |-> "dict", value |-> ("inmuebles" :> PageRecords(src, p))]

NoData == [type |-> "NoneType", value |-> <<>>]
ListData == [type |-> "list", value |-> <<>>]

(***************************************************************************)
(* Python helpers                                                          *)
(***************************************************************************)
DictGet(d, k, default) == IF k \in DOMAIN d THEN d[k] ELSE default

KeyOrder == << "codpro", "estado", "fecha_actualizacion", "precio" >>

\* json.dumps of a listing: its key/value pairs in order.
JsonDumps(inm) ==
    LET keys == SelectSeq(KeyOrder, LAMBDA k : k \in DOMAIN inm)
    IN  [j \in 1..Len(keys) |-> << keys[j], inm[keys[j]] >>]

\* The parameter tuple built for one listing.
ParamsOf(inm) ==
    << DictGet(inm, "codpro", None), JsonDumps(inm),
       DictGet(inm, "estado", None), DictGet(inm, "fecha_actualizacion", None) >>

\* Variant: the exponent is the retry count itself.
Backoff_NoShift(r) == RETRY_DELAY * (2 ^ r)

Backoff(r) == RETRY_DELAY * (2 ^ (r - 1))

(***************************************************************************)
(* The statement INSERT ... ON CONFLICT (codpro) DO UPDATE                 *)
(***************************************************************************)
\* Variant: a new row is created as already processed downstream.
InsertRow_Synced(t) ==
    [codpro |-> t[1], inmueble_data |-> t[2], estado_domus |-> t[3],
     fecha_actualizacion |-> t[4], sincronizado_wp |-> TRUE]

InsertRow(t) ==
    [codpro |-> t[1], inmueble_data |-> t[2], estado_domus |-> t[3],
     fecha_actualizacion |-> t[4], sincronizado_wp |-> FALSE]

\* Variant: the flag is left as it was.
UpdateRow_KeepFlag(r, t) ==
    [r EXCEPT !.inmueble_data = t[2], !.estado_domus = t[3],
              !.fecha_actualizacion = t[4]]

UpdateRow(r, t) ==
    [r EXCEPT !.inmueble_data = t[2], !.estado_domus = t[3],
              !.fecha_actualizacion = t[4], !.sincronizado_wp = FALSE]

\* Variant: no ON CONFLICT clause and no unique key: always a new row.
Upsert_AlwaysInsert(rows, t) == rows \cup {InsertRow(t)}

Upsert(rows, t) ==
    IF \E r \in rows : r.codpro = t[1]
    THEN {IF r.codpro = t[1] THEN UpdateRow(r, t) ELSE r : r \in rows}
    ELSE rows \cup {InsertRow(t)}

\* The statements for the listings lo..hi of a page, run in list order.  The
\* range is halved, and the table after the first half is bound as a value
\* before the second half runs, only to keep the evaluation shallow.
RECURSIVE ExecuteRange(_, _, _, _)
ExecuteRange(rows, recs, lo, hi) ==
    IF lo > hi THEN rows
    ELSE IF lo = hi THEN Upsert(rows, ParamsOf(recs[lo]))
    ELSE LET mid == (lo + hi) \div 2
         IN  CHOOSE out \in {ExecuteRange(half, recs, mid + 1, hi) :
                                 half \in {ExecuteRange(rows, recs, lo, mid)}} : TRUE

\* cursor.executemany applied to the first n listings of a page.
ExecuteFirst(rows, recs, n) == ExecuteRange(rows, recs, 1, n)

UpsertPage(rows, recs) == ExecuteFirst(rows, recs, Len(recs))

(***************************************************************************)
(* Configuration read from the environment                                 *)
(***************************************************************************)
UrlGood == "postgresql://user:pw@db.host:5432/postgres"
UrlBadPort == "postgresql://user:pw@db.host:70000/postgres"

Tokens == {"", "tok"}
Urls == {"", UrlGood, UrlBadPort}

\* result.port of urlparse(url): the port, or ValueError when out of range.
UrlPort(url) == IF url = UrlGood THEN 5432 ELSE 70000

UrlParseRaises(url) == UrlPort(url) \notin 0..65535

(***************************************************************************)
(* The table before the first invocation                                   *)
(***************************************************************************)
ForeignRow ==
    [codpro |-> 9999, inmueble_data |-> << <<"codpro", 9999>> >>,
     estado_domus |-> "Vendido", fecha_actualizacion |-> None,
     sincronizado_wp |-> TRUE]

StaleRow(c, flag) ==
    [codpro |-> c, inmueble_data |-> << <<"codpro", c>> >>,
     estado_domus |-> "Vendido", fecha_actualizacion |-> "2023-12-31",
     sincronizado_wp |-> flag]

\* Rows that already hold what page 1 carries for their codes, processed
\* downstream since.
SyncedRows ==
    LET recs == << Inmueble(1, 1), Inmueble(1, 2), Inmueble(1, 11) >>
    IN  {[r EXCEPT !.sincronizado_wp = TRUE] : r \in UpsertPage({}, recs)}

InitialStores ==
    { {},
      SyncedRows \cup {StaleRow(2, TRUE), StaleRow(12, FALSE), ForeignRow} }

(***************************************************************************)
(* Responses of handler                                                    *)
(***************************************************************************)
NoResponse ==
    [statusCode |-> 0, error |-> "", page |-> 0,
     total_inmuebles_procesados |-> 0, paginas_recorridas |-> 0]

ErrorResponse(kind, p) ==
    [statusCode |-> 500, error |-> kind, page |-> p,
     total_inmuebles_procesados |-> 0, paginas_recorridas |-> 0]

\* Variant: the page counter itself is reported.
OkResponse_PageNotLess1(total, p) ==
    [statusCode |-> 200, error |-> "", page |-> 0,
     total_inmuebles_procesados |-> total, paginas_recorridas |-> p]

OkResponse(total, p) ==
    [statusCode |-> 200, error |-> "", page |-> 0,
     total_inmuebles_procesados |-> total, paginas_recorridas |-> p - 1]

(***************************************************************************)
(* Transactions                                                            *)
(***************************************************************************)
\* conn.commit(): the rows of the transaction become the table.
CommitTxn(table, pending) == pending

\* Variant: the rollback also undoes the pages committed earlier in the run.
RollbackTxn_ToRunStart(table, pending) == db_start

\* Variant: every statement is committed as it runs (autocommit).
RollbackTxn_Autocommit(table, pending) == pending

\* conn.rollback(): the rows of the transaction are dropped.
RollbackTxn(table, pending) == table

\* Records at which a failing executemany stops.
FailAt(recs) == {1, 30, Len(recs)} \cap (1..Len(recs))

(***************************************************************************)
(* Initial state: the module is loaded, handler has not been invoked.      *)
(***************************************************************************)
Init ==
    /\ DOMUS_TOKEN \in Tokens
    /\ SUPABASE_URL \in Urls
    /\ source \in Sources
    /\ db \in InitialStores
    /\ db0 = db
    /\ db_start = db
    /\ txn = {}
    /\ pc = "idle"
    /\ page = 0
    /\ total_inmuebles_actualizados = 0
    /\ inmuebles_en_pagina = 0
    /\ retries = 0
    /\ success = FALSE
    /\ data = NoData
    /\ inmuebles = <<>>
    /\ conn = "unbound"
    /\ response = NoResponse
    /\ raised = None
    /\ run = 0
    /\ attempts = 0
    /\ sleeps = <<>>
    /\ fetched = <<>>
    /\ committed = <<>>
    /\ failed = FALSE
    /\ fetch_error = None
    /\ worst_case = TRUE

env == << DOMUS_TOKEN, SUPABASE_URL, source, db0 >>

\* Variant: only the token is tested.
ConfigMissing_TokenOnly == DOMUS_TOKEN = ""

\* if not DOMUS_TOKEN or not SUPABASE_URL
ConfigMissing == DOMUS_TOKEN = "" \/ SUPABASE_URL = ""

\* Variant: an invocation resumes at the page the previous one reached.
StartPage_Resume == IF page > 0 THEN page ELSE 1

\* page = 1 at the start of every invocation
StartPage == 1

\* Entry of handler up to the first test of the page loop.
HandlerEntry ==
    /\ pc \in {"idle", "done"}
    /\ run < MaxRuns
    /\ run' = run + 1
    /\ db_start' = db
    /\ raised' = None
    /\ conn' = "unbound"
    /\ txn' = {}
    /\ retries' = 0
    /\ success' = FALSE
    /\ data' = NoData
    /\ inmuebles' = <<>>
    /\ attempts' = 0
    /\ sleeps' = <<>>
    /\ fetched' = <<>>
    /\ committed' = <<>>
    /\ failed' = FALSE
    /\ worst_case' = TRUE
    /\ IF ConfigMissing
       THEN /\ response' = ErrorResponse("config", 0)
            /\ pc' = "done"
            /\ page' = 0
            /\ total_inmuebles_actualizados' = 0
            /\ inmuebles_en_pagina' = 0
       ELSE IF UrlParseRaises(SUPABASE_URL)
       THEN /\ response' = ErrorResponse("parse", 0)
            /\ pc' = "done"
            /\ page' = 0
            /\ total_inmuebles_actualizados' = 0
            /\ inmuebles_en_pagina' = 0
       ELSE /\ response' = NoResponse
            /\ pc' = "while_page"
            /\ page' = StartPage
            /\ total_inmuebles_actualizados' = 0
            /\ inmuebles_en_pagina' = LIMIT_PER_PAGE
    /\ fetch_error' = None
    /\ UNCHANGED << env, db >>

\* Variant: the counter carries over from the page before.
ResetRetries_Carry(r) == r

\* retries = 0 at the start of the iteration of a page
ResetRetries(r) == 0

\* while inmuebles_en_pagina == LIMIT_PER_PAGE: start of one iteration.
PageLoop ==
    /\ pc = "while_page"
    /\ IF inmuebles_en_pagina = LIMIT_PER_PAGE
       THEN /\ retries' = ResetRetries(retries)
            /\ success' = FALSE
            /\ data' = NoData
            /\ attempts' = 0
            /\ sleeps' = <<>>
            /\ pc' = "while_retry"
       ELSE /\ pc' = "final"
            /\ UNCHANGED << retries, success, data, attempts, sleeps >>
    /\ fetch_error' = None
    /\ UNCHANGED << env, worst_case, db, txn, page, total_inmuebles_actualizados,
                    inmuebles_en_pagina, inmuebles, conn, response, raised,
                    run, db_start, fetched, committed, failed >>

\* Variant: one attempt too many.
RetryGuard_OneMore == retries <= MAX_RETRIES /\ ~success

\* while retries < MAX_RETRIES and not success
RetryGuard == retries < MAX_RETRIES /\ ~success

\* requests.get answers 2xx with a JSON object.
FetchOk ==
    /\ pc = "while_retry"
    /\ RetryGuard
    /\ attempts' = attempts + 1
    /\ data' = ResponseJson(source, page)
    /\ success' = TRUE
    /\ worst_case' = (worst_case /\ retries = MAX_RETRIES - 1)
    /\ fetched' = Append(fetched, page)
    /\ fetch_error' = None
    /\ UNCHANGED << env, db, txn, pc, page, total_inmuebles_actualizados,
                    inmuebles_en_pagina, retries, inmuebles, conn, response,
                    raised, run, db_start, sleeps, committed, failed >>

\* requests.get answers 2xx with JSON that is not an object.
FetchNotDict ==
    /\ pc = "while_retry"
    /\ RetryGuard
    /\ attempts' = attempts + 1
    /\ data' = ListData
    /\ success' = TRUE
    /\ worst_case' = (worst_case /\ retries = MAX_RETRIES - 1)
    /\ fetched' = Append(fetched, page)
    /\ failed' = TRUE
    /\ fetch_error' = None
    /\ UNCHANGED << env, db, txn, pc, page, total_inmuebles_actualizados,
                    inmuebles_en_pagina, retries, inmuebles, conn, response,
                    raised, run, db_start, sleeps, committed >>

\* requests.exceptions.RequestException: count, back off, sleep.
FetchTransient ==
    /\ pc = "while_retry"
    /\ RetryGuard
    /\ attempts' = attempts + 1
    /\ retries' = retries + 1
    /\ sleeps' = Append(sleeps, Backoff(retries'))
    /\ failed' = TRUE
    /\ fetch_error' = "RequestException"
    /\ UNCHANGED << env, worst_case, db, txn, pc, page, total_inmuebles_actualizados,
                    inmuebles_en_pagina, success, data, inmuebles, conn,
                    response, raised, run, db_start, fetched, committed >>

\* requests.get answers 2xx with a body that is not JSON: response.json()
\* raises.  The exception is requests.exceptions.JSONDecodeError, a
\* RequestException, in requests 2.27 and later, and a plain ValueError
\* before; the first is handled as a transient failure, the second by
\* except Exception.
FetchBadJson ==
    /\ pc = "while_retry"
    /\ RetryGuard
    /\ attempts' = attempts + 1
    /\ fetch_error' = "JSONDecodeError"
    /\ failed' = TRUE
    /\ \/ /\ retries' = retries + 1
          /\ sleeps' = Append(sleeps, Backoff(retries'))
          /\ UNCHANGED << pc, response >>
       \/ /\ response' = ErrorResponse("inesperado", page)
          /\ pc' = "done"
          /\ UNCHANGED << retries, sleeps >>
    /\ UNCHANGED << env, worst_case, db, txn, page, total_inmuebles_actualizados,
                    inmuebles_en_pagina, success, data, inmuebles, conn,
                    raised, run, db_start, fetched, committed >>

\* Any other exception inside the attempt.
FetchUnexpected ==
    /\ pc = "while_retry"
    /\ RetryGuard
    /\ attempts' = attempts + 1
    /\ response' = ErrorResponse("inesperado", page)
    /\ pc' = "done"
    /\ failed' = TRUE
    /\ fetch_error' = "Exception"
    /\ UNCHANGED << env, worst_case, db, txn, page, total_inmuebles_actualizados,
                    inmuebles_en_pagina, retries, success, data, inmuebles,
                    conn, raised, run, db_start, sleeps, fetched, committed >>

\* if not success: the retry loop ended without a response.
RetriesExhausted ==
    /\ pc = "while_retry"
    /\ ~RetryGuard
    /\ ~success
    /\ response' = ErrorResponse("critico", page)
    /\ pc' = "done"
    /\ UNCHANGED << env, worst_case, fetch_error, db, txn, page, total_inmuebles_actualizados,
                    inmuebles_en_pagina, retries, success, data, inmuebles,
                    conn, raised, run, db_start, attempts, sleeps, fetched,
                    committed, failed >>

\* Variant: a connection is opened for an empty page too.
AfterExtract_NoEmptyTest(count) == "connect"

\* if inmuebles_en_pagina > 0: write the page, else: break
AfterExtract(count) == IF count > 0 THEN "connect" ELSE "final"

\* inmuebles = data.get('inmuebles', []) and the test of its length.
Extract ==
    /\ pc = "while_retry"
    /\ ~RetryGuard
    /\ success
    /\ data.type = "dict"
    /\ inmuebles' = DictGet(data.value, "inmuebles", <<>>)
    /\ inmuebles_en_pagina' = Len(inmuebles')
    /\ pc' = AfterExtract(inmuebles_en_pagina')
    /\ UNCHANGED << env, worst_case, fetch_error, db, txn, page, total_inmuebles_actualizados,
                    retries, success, data, conn, response, raised, run,
                    db_start, attempts, sleeps, fetched, committed, failed >>

\* data.get on a value that is not a dict: AttributeError leaves handler.
ExtractRaises ==
    /\ pc = "while_retry"
    /\ ~RetryGuard
    /\ success
    /\ data.type # "dict"
    /\ raised' = "AttributeError"
    /\ pc' = "done"
    /\ UNCHANGED << env, worst_case, fetch_error, db, txn, page, total_inmuebles_actualizados,
                    inmuebles_en_pagina, retries, success, data, inmuebles,
                    conn, response, run, db_start, attempts, sleeps, fetched,
                    committed, failed >>

\* psycopg2.connect and conn.cursor(): a transaction is open.
Connect ==
    /\ pc = "connect"
    /\ conn' = "open"
    /\ txn' = db
    /\ pc' = "execute"
    /\ UNCHANGED << env, worst_case, fetch_error, db, page, total_inmuebles_actualizados,
                    inmuebles_en_pagina, retries, success, data, inmuebles,
                    response, raised, run, db_start, attempts, sleeps,
                    fetched, committed, failed >>

\* psycopg2.connect raises.  The handler of the exception reads conn, which
\* is unbound on the first page and a closed connection afterwards; either
\* way a second exception is raised and leaves handler.
ConnectFails ==
    /\ pc = "connect"
    /\ raised' = IF conn = "unbound" THEN "UnboundLocalError" ELSE "InterfaceError"
    /\ pc' = "done"
    /\ failed' = TRUE
    /\ UNCHANGED << env, worst_case, fetch_error, db, txn, page, total_inmuebles_actualizados,
                    inmuebles_en_pagina, retries, success, data, inmuebles,
                    conn, response, run, db_start, attempts, sleeps, fetched,
                    committed >>

\* The parameter list is built and cursor.executemany runs every statement.
ExecuteMany ==
    /\ pc = "execute"
    /\ txn' = UpsertPage(txn, inmuebles)
    /\ pc' = "commit"
    /\ UNCHANGED << env, worst_case, fetch_error, db, page, total_inmuebles_actualizados,
                    inmuebles_en_pagina, retries, success, data, inmuebles,
                    conn, response, raised, run, db_start, attempts, sleeps,
                    fetched, committed, failed >>

\* cursor.executemany raises at record k, after k - 1 statements.
ExecuteManyFails ==
    /\ pc = "execute"
    /\ \E k \in FailAt(inmuebles) : txn' = ExecuteFirst(txn, inmuebles, k - 1)
    /\ pc' = "except"
    /\ failed' = TRUE
    /\ UNCHANGED << env, worst_case, fetch_error, db, page, total_inmuebles_actualizados,
                    inmuebles_en_pagina, retries, success, data, inmuebles,
                    conn, response, raised, run, db_start, attempts, sleeps,
                    fetched, committed >>

\* Variant: the page counter is advanced twice.
NextPage_Twice(p) == p + 2

\* page += 1
NextPage(p) == p + 1

\* conn.commit(), the total, the finally block and page += 1.
Commit ==
    /\ pc = "commit"
    /\ db' = CommitTxn(db, txn)
    /\ txn' = {}
    /\ total_inmuebles_actualizados' = total_inmuebles_actualizados + inmuebles_en_pagina
    /\ conn' = "closed"
    /\ page' = NextPage(page)
    /\ committed' = Append(committed, page)
    /\ pc' = "while_page"
    /\ UNCHANGED << env, worst_case, fetch_error, inmuebles_en_pagina, retries, success, data,
                    inmuebles, response, raised, run, db_start, attempts,
                    sleeps, fetched, failed >>

\* except Exception: conn.rollback(), return 500, then the finally block.
Rollback ==
    /\ pc = "except"
    /\ db' = RollbackTxn(db, txn)
    /\ txn' = {}
    /\ conn' = "closed"
    /\ response' = ErrorResponse("db", page)
    /\ pc' = "done"
    /\ UNCHANGED << env, worst_case, fetch_error, page, total_inmuebles_actualizados,
                    inmuebles_en_pagina, retries, success, data, inmuebles,
                    raised, run, db_start, attempts, sleeps, fetched,
                    committed, failed >>

\* The final return after the page loop.
FinalResponse ==
    /\ pc = "final"
    /\ response' = OkResponse(total_inmuebles_actualizados, page)
    /\ pc' = "done"
    /\ UNCHANGED << env, worst_case, fetch_error, db, txn, page, total_inmuebles_actualizados,
                    inmuebles_en_pagina, retries, success, data, inmuebles,
                    conn, raised, run, db_start, attempts, sleeps, fetched,
                    committed, failed >>

Next ==
    \/ HandlerEntry
    \/ PageLoop
    \/ FetchOk
    \/ FetchNotDict
    \/ FetchTransient
    \/ FetchBadJson
    \/ FetchUnexpected
    \/ RetriesExhausted
    \/ Extract
    \/ ExtractRaises
    \/ Connect
    \/ ConnectFails
    \/ ExecuteMany
    \/ ExecuteManyFails
    \/ Commit
    \/ Rollback
    \/ FinalResponse

Spec == Init /\ [][Next]_vars

TypeOK ==
    /\ pc \in {"idle", "while_page", "while_retry", "connect", "execute",
               "commit", "except", "final", "done"}
    /\ retries \in 0..MAX_RETRIES
    /\ conn \in {"unbound", "open", "closed"}
    /\ response.statusCode \in {0, 200, 500}

(***************************************************************************)
(* Reference definitions used by the properties                            *)
(***************************************************************************)
\* The pages 1..n of the source applied in order, one upsert per page.
RECURSIVE ApplyPages(_, _, _)
ApplyPages(rows, src, n) ==
    IF n = 0 THEN rows
    ELSE UpsertPage(ApplyPages(rows, src, n - 1), PageRecords(src, n))

\* The first page of the source that is not full.
FirstShortPage(src) ==
    CHOOSE p \in 1..(Len(src.sizes) + 1) :
        /\ PageSize(src, p) # LIMIT_PER_PAGE
        /\ \A q \in 1..(p - 1) : PageSize(src, q) = LIMIT_PER_PAGE

\* The last page of the source that a run writes.
LastDataPage(src) ==
    LET n == FirstShortPage(src)
    IN  IF PageSize(src, n) > 0 THEN n ELSE n - 1

RECURSIVE SumSizes(_, _)
SumSizes(src, n) == IF n = 0 THEN 0 ELSE SumSizes(src, n - 1) + PageSize(src, n)

UpTo(n) == [i \in 1..n |-> i]

ConfigOk == DOMUS_TOKEN # "" /\ SUPABASE_URL = UrlGood

(***************************************************************************)
(* C1: when the pages of the source have sizes s1..sn, all full but the     *)
(* last, which is neither empty nor full, and no fetch and no write fails,  *)
(* the run requests every page 1..n exactly once, answers 200 and reports   *)
(* s1+...+sn records and n pages.                                           *)
(***************************************************************************)
C1_PaginationTotals ==
    LET n == FirstShortPage(source)
    IN  (ConfigOk /\ run >= 1 /\ ~failed
         /\ PageSize(source, n) \in 1..(LIMIT_PER_PAGE - 1)) =>
            /\ attempts <= 1
            /\ Len(fetched) <= n
            /\ raised = None
            /\ pc = "done" =>
                  /\ response = [statusCode |-> 200, error |-> "", page |-> 0,
                                 total_inmuebles_procesados |-> SumSizes(source, n),
                                 paginas_recorridas |-> n]
                  /\ fetched = UpTo(n)
                  /\ attempts = 1

C1_Witness ==
    /\ pc = "done"
    /\ ~failed
    /\ source.sizes = << LIMIT_PER_PAGE, LIMIT_PER_PAGE, 37 >>
    /\ response.statusCode = 200
    /\ response.total_inmuebles_procesados = 137
    /\ response.paginas_recorridas = 3
    /\ fetched = << 1, 2, 3 >>

(***************************************************************************)
(* C2: a page is written all or nothing.  Every step that changes the      *)
(* table applies all records of the current page to it, so no state holds  *)
(* part of a page; a failed executemany is followed by a 500 database      *)
(* error naming the page, with the table as it was before the page.        *)
(***************************************************************************)
C2_AllOrNothing ==
    /\ [][db' # db =>
             /\ pc = "commit"
             /\ inmuebles = PageRecords(source, page)
             /\ db' = UpsertPage(db, inmuebles)]_vars
    /\ [][pc = "except" =>
             /\ db' = db
             /\ response' = [statusCode |-> 500, error |-> "db", page |-> page,
                             total_inmuebles_procesados |-> 0,
                             paginas_recorridas |-> 0]
             /\ pc' = "done"]_vars

\* executemany stopped at record 30 of a full page: part of the page is in
\* the transaction, more than the table holds.
C2_Witness ==
    /\ pc = "except"
    /\ Len(inmuebles) = LIMIT_PER_PAGE
    /\ txn = ExecuteFirst(db, inmuebles, 29)
    /\ txn # db

(***************************************************************************)
(* C3: a page whose fetch fails on every attempt is attempted exactly       *)
(* MAX_RETRIES times; the run then answers 500 naming that page, and        *)
(* neither that page nor a later one has been fetched or written.           *)
(***************************************************************************)
C3_RetriesExhausted ==
    /\ [](attempts <= MAX_RETRIES)
    /\ [](response.error = "critico" =>
             /\ pc = "done"
             /\ response.statusCode = 500
             /\ response.page = page
             /\ attempts = MAX_RETRIES
             /\ fetched = UpTo(page - 1)
             /\ committed = UpTo(page - 1)
             /\ db = ApplyPages(db_start, source, page - 1)
             /\ txn = {})
    /\ [][(pc = "while_retry" /\ ~success /\ attempts = MAX_RETRIES) =>
             /\ response'.error = "critico"
             /\ response'.page = page
             /\ attempts' = attempts
             /\ db' = db]_vars

C3_Witness ==
    /\ response.error = "critico"
    /\ response.page = 2
    /\ attempts = MAX_RETRIES
    /\ committed = << 1 >>

(***************************************************************************)
(* C4: the k-th transient failure of a page is followed by a sleep of       *)
(* RETRY_DELAY * 2^(k-1); after two failures and a success the sleeps were  *)
(* RETRY_DELAY and 2 * RETRY_DELAY and the page's records are processed.    *)
(***************************************************************************)
C4_BackoffDelays ==
    /\ Len(sleeps) = retries
    /\ \A k \in 1..Len(sleeps) : sleeps[k] = RETRY_DELAY * (2 ^ (k - 1))
    /\ sleeps = SubSeq(<< 5, 10, 20, 40, 80 >>, 1, retries)
    /\ (pc \in {"connect", "execute", "commit"} /\ retries = 2) =>
            /\ sleeps = << RETRY_DELAY, 2 * RETRY_DELAY >>
            /\ attempts = 3
            /\ inmuebles = PageRecords(source, page)

C4_Witness ==
    /\ pc = "commit"
    /\ retries = 2
    /\ sleeps = << 5, 10 >>
    /\ txn = UpsertPage(db, PageRecords(source, page))
    /\ txn # db

(***************************************************************************)
(* C5: with the token or the connection string absent, an invocation        *)
(* answers 500 with the configuration error and has made no fetch attempt,  *)
(* no sleep, no connection and no write.                                    *)
(***************************************************************************)
C5_MissingConfig ==
    (run >= 1 /\ (DOMUS_TOKEN = "" \/ SUPABASE_URL = "")) =>
        /\ pc = "done"
        /\ response = [statusCode |-> 500, error |-> "config", page |-> 0,
                       total_inmuebles_procesados |-> 0, paginas_recorridas |-> 0]
        /\ raised = None
        /\ attempts = 0
        /\ fetched = <<>>
        /\ sleeps = <<>>
        /\ conn = "unbound"
        /\ txn = {}
        /\ committed = <<>>
        /\ db = db0

C5_Witness ==
    /\ run >= 1
    /\ DOMUS_TOKEN = ""
    /\ SUPABASE_URL = UrlGood
    /\ Len(source.sizes) > 0
    /\ response.error = "config"

C7_NoEscape ==
    (pc = "done" /\ run >= 1) =>
        /\ raised = None
        /\ response.statusCode \in {200, 500}

(***************************************************************************)
(* C8: when a run ends at page N without success, the table is the table    *)
(* of the start of the run with the pages 1..N-1 applied in order.          *)
(***************************************************************************)
C8_NoGlobalRollback ==
    (pc = "done" /\ run >= 1 /\ page >= 1 /\ response.statusCode # 200) =>
        /\ committed = UpTo(page - 1)
        /\ db = ApplyPages(db_start, source, page - 1)

C8_Witness ==
    /\ pc = "done"
    /\ response = ErrorResponse("db", 2)
    /\ db = UpsertPage(db_start, PageRecords(source, 1))
    /\ db # db_start

C11_StopsExactlyWhenShort ==
    /\ pc = "final" => inmuebles_en_pagina < LIMIT_PER_PAGE
    /\ (pc = "while_retry" /\ ~success) => inmuebles_en_pagina >= LIMIT_PER_PAGE

(***************************************************************************)
(* C12: when page 1 of the source is empty, the run opens no connection,    *)
(* writes nothing and requests no page but page 1; once page 1 has been     *)
(* fetched it answers 200 with 0 records and 0 pages.                       *)
(***************************************************************************)
C12_EmptyFirstPage ==
    (ConfigOk /\ run >= 1 /\ PageSize(source, 1) = 0) =>
        /\ conn = "unbound"
        /\ txn = {}
        /\ committed = <<>>
        /\ db = db_start
        /\ page = 1
        /\ (pc \in {"final", "done"} /\ data.type = "dict") =>
              /\ fetched = << 1 >>
              /\ inmuebles = <<>>
              /\ pc = "done" =>
                    response = [statusCode |-> 200, error |-> "", page |-> 0,
                                total_inmuebles_procesados |-> 0,
                                paginas_recorridas |-> 0]

C12_Witness ==
    /\ pc = "done"
    /\ source.sizes = << 0 >>
    /\ fetched = << 1 >>
    /\ response.statusCode = 200
    /\ response.total_inmuebles_procesados = 0
    /\ response.paginas_recorridas = 0
    /\ conn = "unbound"

(***************************************************************************)
(* C13: the pages fetched in a run are 1, 2, 3, ... in this order, each     *)
(* once; the pages committed are 1, 2, 3, ... in this order; every request  *)
(* is for the page that follows the last committed one, so page N+1 is      *)
(* requested only after page N is committed, and only failed attempts       *)
(* repeat a page number.                                                    *)
(***************************************************************************)
C13_PageOrder ==
    (run >= 1 /\ page >= 1) =>
        /\ fetched = UpTo(Len(fetched))
        /\ committed = UpTo(Len(committed))
        /\ page = Len(committed) + 1
        /\ Len(fetched) \in {Len(committed), Len(committed) + 1}
        /\ (pc = "while_retry" /\ ~success) => Len(fetched) = Len(committed)
        /\ pc \in {"connect", "execute", "commit", "except"} => fetched = UpTo(page)

\* A second attempt for page 3, after pages 1 and 2 were committed.
C13_Witness ==
    /\ pc = "while_retry"
    /\ ~success
    /\ page = 3
    /\ attempts = 1
    /\ retries = 1
    /\ fetched = << 1, 2 >>
    /\ committed = << 1, 2 >>

(***************************************************************************)
(* C14: an attempt that raises an error that is not a transient failure, a  *)
(* malformed response body for one, ends the run at once with status 500,   *)
(* without a sleep and without another attempt.                             *)
(***************************************************************************)
C14_UnexpectedAbortsAtOnce ==
    fetch_error \in {"JSONDecodeError", "Exception"} =>
        /\ pc = "done"
        /\ response.statusCode = 500
        /\ response.page = page
        /\ Len(sleeps) = attempts - 1

(***************************************************************************)
(* C15: the table holds one row per code and never loses a code: the codes  *)
(* present before the first invocation stay; after a commit every code of   *)
(* the page has a single row with the values of its last record in the      *)
(* page; a row whose code is in no committed page of the run is unchanged.  *)
(***************************************************************************)
Codes(rows) == {r.codpro : r \in rows}

RECURSIVE SumFetched(_, _)
SumFetched(src, pages) ==
    IF pages = <<>> THEN 0
    ELSE PageSize(src, Head(pages)) + SumFetched(src, Tail(pages))

C16_PagesFetchedCountsEveryFetch ==
    (pc = "done" /\ response.statusCode = 200) =>
        /\ response.paginas_recorridas = Len(fetched)
        /\ response.total_inmuebles_procesados = SumFetched(source, fetched)

(***************************************************************************)
(* C17: every backoff sleep is followed by another attempt on the same      *)
(* page: a page that fails on all MAX_RETRIES attempts has slept            *)
(* MAX_RETRIES - 1 times when the fatal error is returned.                  *)
(***************************************************************************)
C17_SleepThenRetry ==
    (pc = "done" /\ response.error = "critico") =>
        /\ attempts = MAX_RETRIES
        /\ Len(sleeps) = MAX_RETRIES - 1

(***************************************************************************)
(* Execution of an invocation proceeds: the interpreter runs the handler    *)
(* to its end when every request and every database call returns.  The     *)
(* platform is free to invoke the handler again or not.                     *)
(***************************************************************************)
Step ==
    \/ PageLoop
    \/ FetchOk
    \/ FetchNotDict
    \/ FetchTransient
    \/ FetchBadJson
    \/ FetchUnexpected
    \/ RetriesExhausted
    \/ Extract
    \/ ExtractRaises
    \/ Connect
    \/ ConnectFails
    \/ ExecuteMany
    \/ ExecuteManyFails
    \/ Commit
    \/ Rollback
    \/ FinalResponse

FairSpec == Spec /\ WF_vars(Step)

\* Every invocation reaches its end, by a response or by an exception.
RunEnds == \A k \in 1..MaxRuns : (run = k) ~> (run = k /\ pc = "done")

(***************************************************************************)
(* C18: every invocation eventually returns a response with status 200 or   *)
(* 500, and the retry counter of the current page stays in 0..MAX_RETRIES.  *)
(***************************************************************************)
C18_EveryRunResponds ==
    /\ \A k \in 1..MaxRuns :
          (run = k) ~> (run = k /\ pc = "done" /\ response.statusCode \in {200, 500})
    /\ [](retries \in 0..MAX_RETRIES)

(***************************************************************************)
(* C19: the retry budget is per page.  Each page starts with the counter    *)
(* at 0 and no sleep made, its first sleep is RETRY_DELAY, and the counter  *)
(* counts the failed attempts of that page alone, whatever failed on the    *)
(* pages before: a page is answered after at most MAX_RETRIES - 1 failures  *)
(* and may be given MAX_RETRIES attempts.                                    *)
(***************************************************************************)
C19_BudgetPerPage ==
    /\ (pc = "while_retry" /\ attempts = 0) =>
          (retries = 0 /\ sleeps = <<>> /\ ~success)
    /\ sleeps # <<>> => sleeps[1] = RETRY_DELAY
    /\ (pc = "while_retry" /\ ~success) => attempts = retries
    /\ (pc = "while_retry" /\ success) =>
          (attempts = retries + 1 /\ retries <= MAX_RETRIES - 1)
    /\ attempts <= MAX_RETRIES

\* A run over three pages answers 200 although each of its pages failed
\* MAX_RETRIES - 1 times before it was answered: twelve failures in all.
C19_Witness ==
    /\ pc = "done"
    /\ response.statusCode = 200
    /\ fetched = << 1, 2, 3 >>
    /\ worst_case
    /\ failed
    /\ sleeps = << 5, 10, 20, 40 >>

====
